---- MODULE Spec2Model ----
(***************************************************************************)
(* Model of the table based finite state machine of fsm.h / fsm.c.         *)
(*                                                                         *)
(* The machine is one caller-owned FsmHandle_t: a table of                 *)
(* FSM_MAX_NR_OF_STATES slots (stateFunc, onEntryFunc, onExitFunc) and the *)
(* index currentState.  The three operations fsmInit, fsmAdd and fsmRun    *)
(* are operators over a handle value; one action per operation applies     *)
(* the operator to the handle and records the call, its result and the     *)
(* user functions it invoked.                                              *)
(***************************************************************************)
EXTENDS Integers, Sequences, FiniteSets, TLC

\* Capacity of the table.  fsm.h sets 10; the capacity is a single #define
\* and the model is checked for a smaller table.
FSM_MAX_NR_OF_STATES == 3

\* The null function pointer.
NULL == "NULL"

\* An indeterminate non-null pointer, as read from outside the table.
WILD == "WILD"

\* Valid table indices.
StateIds == 0 .. (FSM_MAX_NR_OF_STATES - 1)

\* The uint8_t values the model distinguishes: every valid index and the
\* first index past the table, which stands for all values out of range.
Uint8Values == 0 .. FSM_MAX_NR_OF_STATES

\* User supplied state functions (FsmStateFunc_t).
StateFuncs == {"StateFunc"}

\* User supplied entry hooks (FsmOnEntryFunc_t).
OnEntryFuncs == {"OnEntry"}

\* User supplied exit hooks (FsmOnExitFunc_t).
OnExitFuncs == {"OnExit"}

\* The values a call of state function f can return: the engine does not
\* constrain a state function, so any uint8_t.
Returns(f) == Uint8Values

\* One slot of the table.
FsmStateDef_t ==
  [stateFunc : StateFuncs \cup {NULL},
   onEntryFunc : OnEntryFuncs \cup {NULL},
   onExitFunc : OnExitFuncs \cup {NULL}]

\* A slot with all three pointers cleared.
EmptySlot == [stateFunc |-> NULL, onEntryFunc |-> NULL, onExitFunc |-> NULL]

\* A table with every slot cleared.
EmptyTable == [i \in StateIds |-> EmptySlot]

\* The handle type.  currentState is a uint8_t, not restricted to StateIds.
FsmHandle_t == [currentState : Uint8Values, table : [StateIds -> FsmStateDef_t]]

VARIABLES
  fsmHandle,   \* the FsmHandle_t instance
  prev,        \* the handle as it was when the most recent call began
  lastCall,    \* the most recent call: [op, args, ret]
  calls,       \* user functions invoked by the most recent call, in order
  fault,       \* TRUE once a call through an indeterminate pointer crashed
  sinceInit,   \* history since the last fsmInit:
               \*   reinit: that fsmInit cleared a table holding registrations
               \*           and no fsmAdd has succeeded since
               \*   adds:   some fsmAdd has succeeded since
               \*   phase:  "fresh" no fsmRun yet, "firstRun" the most recent
               \*           call was the first fsmRun, "later" otherwise
  flag,        \* the input the user's state functions read (a button, say)
  loop         \* the clearing loop of fsmInit taken alone, for a table of
               \* cap slots: [cap, i, cleared, pc, id, accepted]

\* What the three operations neither read nor write.
env == <<flag, loop>>

vars == <<fsmHandle, prev, lastCall, calls, fault, sinceInit, flag, loop>>

----------------------------------------------------------------------------
\* fsmInit with the clearing loop left out.
fsmInit_NoClear(h, initState) ==
  [handle |-> [currentState |-> IF initState < FSM_MAX_NR_OF_STATES
                                THEN initState ELSE 0,
               table |-> h.table],
   ret |-> IF initState < FSM_MAX_NR_OF_STATES THEN 0 ELSE -1]

\* fsmInit with the else branch left out: an initState out of range leaves
\* currentState as it was.
fsmInit_NoDefault(h, initState) ==
  [handle |-> [currentState |-> IF initState < FSM_MAX_NR_OF_STATES
                                THEN initState ELSE h.currentState,
               table |-> EmptyTable],
   ret |-> IF initState < FSM_MAX_NR_OF_STATES THEN 0 ELSE -1]

\* fsmInit with the clearing loop stopping one slot early.
fsmInit_SkipLast(h, initState) ==
  [handle |-> [currentState |-> IF initState < FSM_MAX_NR_OF_STATES
                                THEN initState ELSE 0,
               table |-> [i \in StateIds |->
                            IF i < FSM_MAX_NR_OF_STATES - 1
                            THEN EmptySlot ELSE h.table[i]]],
   ret |-> IF initState < FSM_MAX_NR_OF_STATES THEN 0 ELSE -1]

\* fsmInit without the range test of initState.
fsmInit_Unchecked(h, initState) ==
  [handle |-> [currentState |-> initState, table |-> EmptyTable],
   ret |-> IF initState < FSM_MAX_NR_OF_STATES THEN 0 ELSE -1]

\* fsmInit: clear every slot, then set currentState (0 when out of range).
fsmInit(h, initState) ==
  [handle |-> [currentState |-> IF initState < FSM_MAX_NR_OF_STATES
                                THEN initState ELSE 0,
               table |-> EmptyTable],
   ret |-> IF initState < FSM_MAX_NR_OF_STATES THEN 0 ELSE -1]

\* fsmAdd that keeps a hook of an earlier registration when the new one is NULL.
fsmAdd_Merge(h, state, stateFunc, onEntryFunc, onExitFunc) ==
  IF (state < FSM_MAX_NR_OF_STATES) /\ (stateFunc # NULL)
  THEN [handle |-> [h EXCEPT !.table[state] =
                       [stateFunc |-> stateFunc,
                        onEntryFunc |-> IF onEntryFunc # NULL
                                        THEN onEntryFunc ELSE @.onEntryFunc,
                        onExitFunc |-> IF onExitFunc # NULL
                                       THEN onExitFunc ELSE @.onExitFunc]],
        ret |-> 0]
  ELSE [handle |-> h, ret |-> -1]

\* fsmAdd that does not test stateFunc against NULL.
fsmAdd_NoNullCheck(h, state, stateFunc, onEntryFunc, onExitFunc) ==
  IF state < FSM_MAX_NR_OF_STATES
  THEN [handle |-> [h EXCEPT !.table[state] =
                       [stateFunc |-> stateFunc,
                        onEntryFunc |-> onEntryFunc,
                        onExitFunc |-> onExitFunc]],
        ret |-> 0]
  ELSE [handle |-> h, ret |-> -1]

\* fsmAdd that also makes the registered state the current one.
fsmAdd_SetsCurrent(h, state, stateFunc, onEntryFunc, onExitFunc) ==
  IF (state < FSM_MAX_NR_OF_STATES) /\ (stateFunc # NULL)
  THEN [handle |-> [currentState |-> state,
                    table |-> [h.table EXCEPT ![state] =
                                 [stateFunc |-> stateFunc,
                                  onEntryFunc |-> onEntryFunc,
                                  onExitFunc |-> onExitFunc]]],
        ret |-> 0]
  ELSE [handle |-> h, ret |-> -1]

\* fsmAdd that treats the table as a list: the registration goes into the
\* first slot that holds none, whatever state says.
fsmAdd_FirstFree(h, state, stateFunc, onEntryFunc, onExitFunc) ==
  LET free == {i \in StateIds : h.table[i].stateFunc = NULL}
      slot == IF free = {} THEN state
              ELSE CHOOSE i \in free : \A j \in free : i <= j
  IN IF (state < FSM_MAX_NR_OF_STATES) /\ (stateFunc # NULL)
     THEN [handle |-> [h EXCEPT !.table[slot] =
                          [stateFunc |-> stateFunc,
                           onEntryFunc |-> onEntryFunc,
                           onExitFunc |-> onExitFunc]],
           ret |-> 0]
     ELSE [handle |-> h, ret |-> -1]

\* fsmAdd: bind the three pointers to slot state when state is in range and
\* stateFunc is not NULL; otherwise change nothing and return -1.
fsmAdd(h, state, stateFunc, onEntryFunc, onExitFunc) ==
  IF (state < FSM_MAX_NR_OF_STATES) /\ (stateFunc # NULL)
  THEN [handle |-> [h EXCEPT !.table[state] =
                       [stateFunc |-> stateFunc,
                        onEntryFunc |-> onEntryFunc,
                        onExitFunc |-> onExitFunc]],
        ret |-> 0]
  ELSE [handle |-> h, ret |-> -1]

\* Reading field f of table[i].  Inside the table the stored pointer; outside
\* it the read is out of bounds and yields NULL or an indeterminate pointer.
TableRead(h, i, f) ==
  IF i \in StateIds THEN {h.table[i][f]} ELSE {NULL, WILD}

\* One invocation of a hook: which pointer, read from which slot and field,
\* and the currentState the handle holds while the hook runs.
Invocation(h, kind, fn, slot) ==
  [kind |-> kind, fn |-> fn, slot |-> slot, seen |-> h.currentState]

\* The invocation of the state function of the current slot, returning ret.
StateFuncCall(h, fn, ret) ==
  [kind |-> "stateFunc", fn |-> fn, slot |-> h.currentState,
   seen |-> h.currentState, ret |-> ret]

\* A call through an indeterminate pointer either crashes or returns.
WildCall == {"crash", "return"}

\* The transition with the commit made before the hooks are called.
fsmRunTransition_CommitFirst(h, stateNext, log) ==
  IF h.currentState = stateNext
  THEN {[handle |-> h, calls |-> log, fault |-> FALSE]}
  ELSE LET c == [h EXCEPT !.currentState = stateNext]
       IN UNION {
         LET exitLog == IF ex = NULL THEN log
                        ELSE Append(log, Invocation(c, "onExitFunc", ex, h.currentState))
             entryLog == IF en = NULL THEN exitLog
                         ELSE Append(exitLog, Invocation(c, "onEntryFunc", en, stateNext))
         IN {[handle |-> c, calls |-> entryLog, fault |-> FALSE]}
         : <<ex, en>> \in TableRead(h, h.currentState, "onExitFunc")
                          \X TableRead(h, stateNext, "onEntryFunc") }

\* The transition made without comparing stateNext with currentState.
fsmRunTransition_NoCompare(h, stateNext, log) ==
  UNION {
    LET exitLog == IF ex = NULL THEN log
                   ELSE Append(log, Invocation(h, "onExitFunc", ex, h.currentState))
        entryLog == IF en = NULL THEN exitLog
                    ELSE Append(exitLog, Invocation(h, "onEntryFunc", en, stateNext))
    IN {[handle |-> [h EXCEPT !.currentState = stateNext],
         calls |-> entryLog, fault |-> FALSE]}
    : <<ex, en>> \in TableRead(h, h.currentState, "onExitFunc")
                     \X TableRead(h, stateNext, "onEntryFunc") }

\* The transition with onEntryFunc looked up in the current slot instead of
\* the target slot.
fsmRunTransition_EntryOfCurrent(h, stateNext, log) ==
  IF h.currentState = stateNext
  THEN {[handle |-> h, calls |-> log, fault |-> FALSE]}
  ELSE UNION {
    LET exitLog == IF ex = NULL THEN log
                   ELSE Append(log, Invocation(h, "onExitFunc", ex, h.currentState))
        entryLog == IF en = NULL THEN exitLog
                    ELSE Append(exitLog, Invocation(h, "onEntryFunc", en, h.currentState))
    IN {[handle |-> [h EXCEPT !.currentState = stateNext],
         calls |-> entryLog, fault |-> FALSE]}
    : <<ex, en>> \in TableRead(h, h.currentState, "onExitFunc")
                     \X TableRead(h, h.currentState, "onEntryFunc") }

\* The transition with the call of onExitFunc left out.
fsmRunTransition_NoExit(h, stateNext, log) ==
  IF h.currentState = stateNext
  THEN {[handle |-> h, calls |-> log, fault |-> FALSE]}
  ELSE UNION {
    LET entryLog == IF en = NULL THEN log
                    ELSE Append(log, Invocation(h, "onEntryFunc", en, stateNext))
    IN {[handle |-> [h EXCEPT !.currentState = stateNext],
         calls |-> entryLog, fault |-> FALSE]}
    : en \in TableRead(h, stateNext, "onEntryFunc") }

\* The transition with a bounds check of stateNext: a value outside the
\* table is rejected and nothing happens.
fsmRunTransition_BoundsChecked(h, stateNext, log) ==
  IF h.currentState = stateNext \/ stateNext >= FSM_MAX_NR_OF_STATES
  THEN {[handle |-> h, calls |-> log, fault |-> FALSE]}
  ELSE UNION {
    LET exitLog == IF ex = NULL THEN log
                   ELSE Append(log, Invocation(h, "onExitFunc", ex, h.currentState))
        entryLog == IF en = NULL THEN exitLog
                    ELSE Append(exitLog, Invocation(h, "onEntryFunc", en, stateNext))
    IN {[handle |-> [h EXCEPT !.currentState = stateNext],
         calls |-> entryLog, fault |-> FALSE]}
    : <<ex, en>> \in TableRead(h, h.currentState, "onExitFunc")
                     \X TableRead(h, stateNext, "onEntryFunc") }

\* The transition refused when the target slot holds no stateFunc.
fsmRunTransition_RejectUnregistered(h, stateNext, log) ==
  IF h.currentState = stateNext
     \/ (stateNext \in StateIds /\ h.table[stateNext].stateFunc = NULL)
  THEN {[handle |-> h, calls |-> log, fault |-> FALSE]}
  ELSE UNION {
    LET exitLog == IF ex = NULL THEN log
                   ELSE Append(log, Invocation(h, "onExitFunc", ex, h.currentState))
        entryLog == IF en = NULL THEN exitLog
                    ELSE Append(exitLog, Invocation(h, "onEntryFunc", en, stateNext))
    IN {[handle |-> [h EXCEPT !.currentState = stateNext],
         calls |-> entryLog, fault |-> FALSE]}
    : <<ex, en>> \in TableRead(h, h.currentState, "onExitFunc")
                     \X TableRead(h, stateNext, "onEntryFunc") }

\* The transition with onExitFunc looked up in the target slot instead of
\* the current slot.
fsmRunTransition_ExitOfTarget(h, stateNext, log) ==
  IF h.currentState = stateNext
  THEN {[handle |-> h, calls |-> log, fault |-> FALSE]}
  ELSE UNION {
    LET exitLog == IF ex = NULL THEN log
                   ELSE Append(log, Invocation(h, "onExitFunc", ex, stateNext))
        entryLog == IF en = NULL THEN exitLog
                    ELSE Append(exitLog, Invocation(h, "onEntryFunc", en, stateNext))
    IN {[handle |-> [h EXCEPT !.currentState = stateNext],
         calls |-> entryLog, fault |-> FALSE]}
    : <<ex, en>> \in TableRead(h, stateNext, "onExitFunc")
                     \X TableRead(h, stateNext, "onEntryFunc") }

\* The transition part of fsmRun, after stateFunc returned stateNext:
\* onExitFunc of the current slot, onEntryFunc of the target slot, then the
\* commit.  log is what has been invoked so far.
fsmRunTransition(h, stateNext, log) ==
  IF h.currentState = stateNext
  THEN {[handle |-> h, calls |-> log, fault |-> FALSE]}
  ELSE UNION {
    LET exitLog == IF ex = NULL THEN log
                   ELSE Append(log, Invocation(h, "onExitFunc", ex, h.currentState))
    IN UNION {
      IF ex = WILD /\ wx = "crash"
      THEN {[handle |-> h, calls |-> exitLog, fault |-> TRUE]}
      ELSE UNION {
        LET entryLog == IF en = NULL THEN exitLog
                        ELSE Append(exitLog, Invocation(h, "onEntryFunc", en, stateNext))
        IN { IF en = WILD /\ we = "crash"
             THEN [handle |-> h, calls |-> entryLog, fault |-> TRUE]
             ELSE [handle |-> [h EXCEPT !.currentState = stateNext],
                   calls |-> entryLog, fault |-> FALSE]
             : we \in WildCall }
        : en \in TableRead(h, stateNext, "onEntryFunc") }
      : wx \in WildCall }
    : ex \in TableRead(h, h.currentState, "onExitFunc") }

\* fsmRun without the NULL test of stateFunc: the call through the null
\* pointer crashes.
fsmRun_NoNullCheck(h) ==
  UNION {
    IF sf \in {NULL, WILD}
    THEN {[handle |-> h,
           calls |-> <<Invocation(h, "stateFunc", sf, h.currentState)>>,
           fault |-> TRUE]}
    ELSE UNION { fsmRunTransition(h, stateNext,
                                  <<StateFuncCall(h, sf, stateNext)>>)
                 : stateNext \in Returns(sf) }
    : sf \in TableRead(h, h.currentState, "stateFunc") }

\* fsmRun that, after a transition, goes on to call the state function of
\* the state just entered within the same call.
fsmRun_RunsTarget(h) ==
  LET base == UNION {
        IF sf = NULL
        THEN {[handle |-> h, calls |-> << >>, fault |-> FALSE]}
        ELSE UNION { fsmRunTransition(h, stateNext,
                                      <<StateFuncCall(h, sf, stateNext)>>)
                     : stateNext \in Uint8Values }
        : sf \in TableRead(h, h.currentState, "stateFunc") }
      again(r) ==
        IF /\ ~r.fault
           /\ r.handle.currentState # h.currentState
           /\ r.handle.currentState \in StateIds
           /\ h.table[r.handle.currentState].stateFunc # NULL
        THEN [r EXCEPT !.calls =
                Append(@, StateFuncCall(r.handle,
                                        h.table[r.handle.currentState].stateFunc,
                                        r.handle.currentState))]
        ELSE r
  IN {again(r) : r \in base}

\* fsmRun: the set of outcomes of one call.  Nothing happens when the current
\* slot has no stateFunc; otherwise stateFunc is called and, when it returns
\* another state, the transition is made.
fsmRun(h) ==
  UNION {
    IF sf = NULL
    THEN {[handle |-> h, calls |-> << >>, fault |-> FALSE]}
    ELSE IF sf = WILD
    THEN {[handle |-> h,
           calls |-> <<Invocation(h, "stateFunc", sf, h.currentState)>>,
           fault |-> TRUE]}
         \cup UNION { fsmRunTransition(h, stateNext,
                                       <<StateFuncCall(h, sf, stateNext)>>)
                      : stateNext \in Uint8Values }
    ELSE UNION { fsmRunTransition(h, stateNext,
                                  <<StateFuncCall(h, sf, stateNext)>>)
                 : stateNext \in Returns(sf) }
    : sf \in TableRead(h, h.currentState, "stateFunc") }

----------------------------------------------------------------------------
\* The handle as the caller defines it, before fsmInit has been called.
Init ==
  /\ fsmHandle = [currentState |-> 0, table |-> EmptyTable]
  /\ prev = fsmHandle
  /\ lastCall = [op |-> "none", args |-> << >>, ret |-> 0]
  /\ calls = << >>
  /\ fault = FALSE
  /\ sinceInit = [reinit |-> FALSE, adds |-> FALSE, phase |-> "fresh"]
  /\ flag = FALSE
  /\ loop = [cap |-> FSM_MAX_NR_OF_STATES, i |-> 0, cleared |-> {},
             pc |-> "idle", id |-> 0, accepted |-> FALSE]

\* fsmInit has been called at least once.
Initialised == lastCall.op # "none"

\* The caller calls fsmInit(&fsmHandle, initState).
CallFsmInit ==
  /\ ~fault
  /\ \E initState \in Uint8Values :
       LET r == fsmInit(fsmHandle, initState)
       IN /\ fsmHandle' = r.handle
          /\ lastCall' = [op |-> "fsmInit", args |-> <<initState>>, ret |-> r.ret]
  /\ prev' = fsmHandle
  /\ calls' = << >>
  /\ sinceInit' = [reinit |-> fsmHandle.table # EmptyTable,
                   adds |-> FALSE, phase |-> "fresh"]
  /\ UNCHANGED <<fault, env>>

\* The caller calls fsmAdd(&fsmHandle, state, stateFunc, onEntryFunc, onExitFunc).
CallFsmAdd ==
  /\ Initialised /\ ~fault
  /\ \E state \in Uint8Values,
        stateFunc \in StateFuncs \cup {NULL},
        onEntryFunc \in OnEntryFuncs \cup {NULL},
        onExitFunc \in OnExitFuncs \cup {NULL} :
       LET r == fsmAdd(fsmHandle, state, stateFunc, onEntryFunc, onExitFunc)
       IN /\ fsmHandle' = r.handle
          /\ lastCall' = [op |-> "fsmAdd",
                          args |-> <<state, stateFunc, onEntryFunc, onExitFunc>>,
                          ret |-> r.ret]
          /\ sinceInit' = [reinit |-> sinceInit.reinit /\ (r.ret # 0),
                            adds |-> sinceInit.adds \/ (r.ret = 0),
                            phase |-> IF sinceInit.phase = "fresh"
                                      THEN "fresh" ELSE "later"]
  /\ prev' = fsmHandle
  /\ calls' = << >>
  /\ UNCHANGED <<fault, env>>

\* The caller calls fsmRun(&fsmHandle).
CallFsmRun ==
  /\ Initialised /\ ~fault
  /\ \E r \in fsmRun(fsmHandle) :
       /\ fsmHandle' = r.handle
       /\ calls' = r.calls
       /\ fault' = r.fault
  /\ prev' = fsmHandle
  /\ lastCall' = [op |-> "fsmRun", args |-> << >>, ret |-> 0]
  /\ sinceInit' = [sinceInit EXCEPT !.phase = IF @ = "fresh"
                                              THEN "firstRun" ELSE "later"]
  /\ UNCHANGED env

Next == CallFsmInit \/ CallFsmAdd \/ CallFsmRun

Spec == Init /\ [][Next]_vars

----------------------------------------------------------------------------
\* The machine used with well-behaved state functions.

\* An outcome of fsmRun in which the user's state function, if one was
\* called, returned a valid state index.
ReturnsInRange(r) ==
  IF r.calls = << >> THEN TRUE
  ELSE IF r.calls[1].fn \notin StateFuncs THEN TRUE
  ELSE r.calls[1].ret \in StateIds

\* The caller calls fsmRun(&fsmHandle) and the state function returns a
\* valid state index.
CallFsmRunInRange ==
  /\ Initialised /\ ~fault
  /\ \E r \in fsmRun(fsmHandle) :
       /\ ReturnsInRange(r)
       /\ fsmHandle' = r.handle
       /\ calls' = r.calls
       /\ fault' = r.fault
  /\ prev' = fsmHandle
  /\ lastCall' = [op |-> "fsmRun", args |-> << >>, ret |-> 0]
  /\ sinceInit' = [sinceInit EXCEPT !.phase = IF @ = "fresh"
                                              THEN "firstRun" ELSE "later"]
  /\ UNCHANGED env

NextInRange == CallFsmInit \/ CallFsmAdd \/ CallFsmRunInRange

SpecInRange == Init /\ [][NextInRange]_vars

\* The table indices the most recent call used: fsmRun indexes the table
\* with currentState and, when stateFunc returned another value, with that
\* value; fsmAdd with state when it passes the test; fsmInit with every
\* index its loop visits.
Accessed ==
  IF lastCall.op = "fsmRun"
  THEN {prev.currentState}
       \cup (IF calls # << >> /\ "ret" \in DOMAIN calls[1]
                /\ calls[1].ret # prev.currentState
             THEN {calls[1].ret} ELSE {})
       \cup {calls[i].slot : i \in 1 .. Len(calls)}
  ELSE IF lastCall.op = "fsmAdd"
  THEN (IF lastCall.ret = 0 THEN {lastCall.args[1]} ELSE {})
  ELSE IF lastCall.op = "fsmInit"
  THEN DOMAIN fsmHandle.table
  ELSE {}

----------------------------------------------------------------------------
\* The end-to-end scenario: three states, state 1 waiting for an input flag.

\* What is registered for state i of the scenario.
ScenarioSlot(i) ==
  IF i = 0
  THEN [stateFunc |-> "State0", onEntryFunc |-> NULL, onExitFunc |-> NULL]
  ELSE IF i = 1
  THEN [stateFunc |-> "State1", onEntryFunc |-> "enter1", onExitFunc |-> NULL]
  ELSE [stateFunc |-> "State2", onEntryFunc |-> "enter2", onExitFunc |-> "exit2"]

\* The states of the scenario.
ScenarioStates == {0, 1, 2}

\* The table once the three states are registered.
ScenarioTable ==
  [i \in StateIds |-> IF i \in ScenarioStates THEN ScenarioSlot(i) ELSE EmptySlot]

\* What the scenario's state function fn returns when the flag is f.
ScenarioResult(fn, f) ==
  IF fn = "State0" THEN 1
  ELSE IF fn = "State1" THEN (IF f THEN 2 ELSE 1)
  ELSE 2

\* An outcome of fsmRun in which the state function returned what the
\* scenario's function returns for the present flag.
ScenarioOutcome(r) ==
  IF r.calls = << >> THEN TRUE
  ELSE r.calls[1].ret = ScenarioResult(r.calls[1].fn, flag)

\* main() calls fsmInit(&fsmHandle, 0), once.
ScenarioInit ==
  /\ ~Initialised
  /\ LET r == fsmInit(fsmHandle, 0)
     IN /\ fsmHandle' = r.handle
        /\ lastCall' = [op |-> "fsmInit", args |-> <<0>>, ret |-> r.ret]
  /\ prev' = fsmHandle
  /\ calls' = << >>
  /\ sinceInit' = [reinit |-> FALSE, adds |-> FALSE, phase |-> "fresh"]
  /\ UNCHANGED <<fault, env>>

\* main() registers state i of the scenario.
ScenarioAdd(i) ==
  /\ Initialised /\ ~fault
  /\ fsmHandle.table[i].stateFunc = NULL
  /\ LET d == ScenarioSlot(i)
         r == fsmAdd(fsmHandle, i, d.stateFunc, d.onEntryFunc, d.onExitFunc)
     IN /\ fsmHandle' = r.handle
        /\ lastCall' = [op |-> "fsmAdd",
                        args |-> <<i, d.stateFunc, d.onEntryFunc, d.onExitFunc>>,
                        ret |-> r.ret]
        /\ sinceInit' = [reinit |-> sinceInit.reinit /\ (r.ret # 0),
                          adds |-> sinceInit.adds \/ (r.ret = 0),
                          phase |-> IF sinceInit.phase = "fresh"
                                    THEN "fresh" ELSE "later"]
  /\ prev' = fsmHandle
  /\ calls' = << >>
  /\ UNCHANGED <<fault, env>>

\* One pass of the loop of main(): fsmRun(&fsmHandle).
ScenarioRun ==
  /\ Initialised /\ ~fault
  /\ \E r \in fsmRun(fsmHandle) :
       /\ ScenarioOutcome(r)
       /\ fsmHandle' = r.handle
       /\ calls' = r.calls
       /\ fault' = r.fault
  /\ prev' = fsmHandle
  /\ lastCall' = [op |-> "fsmRun", args |-> << >>, ret |-> 0]
  /\ sinceInit' = [sinceInit EXCEPT !.phase = IF @ = "fresh"
                                              THEN "firstRun" ELSE "later"]
  /\ UNCHANGED env

\* The input flag becomes true.
SetFlag ==
  /\ ~flag
  /\ flag' = TRUE
  /\ prev' = fsmHandle
  /\ lastCall' = [op |-> "setFlag", args |-> << >>, ret |-> 0]
  /\ calls' = << >>
  /\ UNCHANGED <<fsmHandle, fault, sinceInit, loop>>

NextScenario ==
  \/ ScenarioInit
  \/ \E i \in ScenarioStates : ScenarioAdd(i)
  \/ ScenarioRun
  \/ SetFlag

\* main() makes its calls one after the other and then calls fsmRun for
\* ever; nothing is assumed about the flag.
SpecScenario ==
  /\ Init
  /\ [][NextScenario]_vars
  /\ WF_vars(ScenarioInit)
  /\ \A i \in ScenarioStates : WF_vars(ScenarioAdd(i))
  /\ WF_vars(ScenarioRun)

----------------------------------------------------------------------------
\* The clearing loop of fsmInit with its 8-bit counter, for every capacity
\* FSM_MAX_NR_OF_STATES can be set to.

\* The number of values of a uint8_t.
UINT8_RANGE == 256

\* The largest capacity: FSM_MAX_NR_OF_STATES is cast to uint8_t.
MAX_CAPACITY == 255

\* The capacities fsm.h allows.
Capacities == 1 .. MAX_CAPACITY

\* The loop with the test i <= cap in place of i < cap.
LoopIter_Inclusive(l) ==
  IF l.i <= l.cap
  THEN [l EXCEPT !.cleared = @ \cup {l.i}, !.i = (l.i + 1) % UINT8_RANGE]
  ELSE [l EXCEPT !.pc = "done"]

\* One round of for (uint8_t i = 0; i < FSM_MAX_NR_OF_STATES; i++): the
\* test, and when it passes the body (slot i is cleared) and the increment
\* of the 8-bit counter.
LoopIter(l) ==
  IF l.i < l.cap
  THEN [l EXCEPT !.cleared = @ \cup {l.i}, !.i = (l.i + 1) % UINT8_RANGE]
  ELSE [l EXCEPT !.pc = "done"]

\* The range test fsmInit and fsmAdd apply to a state identifier.
InTable(cap, id) == id < cap

\* fsmInit is entered for a table of any allowed capacity.
InitLoop ==
  /\ fsmHandle = [currentState |-> 0, table |-> EmptyTable]
  /\ prev = fsmHandle
  /\ lastCall = [op |-> "none", args |-> << >>, ret |-> 0]
  /\ calls = << >>
  /\ fault = FALSE
  /\ sinceInit = [reinit |-> FALSE, adds |-> FALSE, phase |-> "fresh"]
  /\ flag = FALSE
  /\ loop \in {[cap |-> c, i |-> 0, cleared |-> {}, pc |-> "loop",
                id |-> 0, accepted |-> FALSE] : c \in Capacities}

\* The loop makes one round.
LoopStep ==
  /\ loop.pc = "loop"
  /\ loop' = LoopIter(loop)
  /\ UNCHANGED <<fsmHandle, prev, lastCall, calls, fault, sinceInit, flag>>

\* After the loop a state identifier, any uint8_t, is passed to fsmInit or
\* fsmAdd and meets the range test.
TestId ==
  /\ loop.pc = "done"
  /\ \E id \in 0 .. (UINT8_RANGE - 1) :
       loop' = [loop EXCEPT !.pc = "tested", !.id = id,
                            !.accepted = InTable(loop.cap, id)]
  /\ UNCHANGED <<fsmHandle, prev, lastCall, calls, fault, sinceInit, flag>>

NextLoop == LoopStep \/ TestId

\* The loop is straight-line code: it keeps running until its test fails.
SpecLoop == InitLoop /\ [][NextLoop]_vars /\ WF_vars(LoopStep)

----------------------------------------------------------------------------
\* Type correctness of the model state.
TypeOK ==
  /\ fsmHandle \in FsmHandle_t
  /\ fault \in BOOLEAN
  /\ sinceInit \in [reinit : BOOLEAN, adds : BOOLEAN,
                    phase : {"fresh", "firstRun", "later"}]

----------------------------------------------------------------------------
\* Abbreviations used by the properties below.

\* The most recent call was fsmInit / fsmAdd / fsmRun.
IsInit == lastCall.op = "fsmInit"
IsAdd == lastCall.op = "fsmAdd"
IsRun == lastCall.op = "fsmRun"

\* Slot i of table t holds no pointer at all.
SlotEmpty(t, i) ==
  /\ t[i].stateFunc = NULL
  /\ t[i].onEntryFunc = NULL
  /\ t[i].onExitFunc = NULL

\* The most recent fsmRun called a state function and it returned.
Returned == IsRun /\ calls # << >> /\ "ret" \in DOMAIN calls[1]

\* The hook invocations among the most recent call's invocations.
HookCalls == {i \in 1 .. Len(calls) : calls[i].kind # "stateFunc"}

\* Some slot of table t holds a registration with both hooks.
Populated(t) ==
  \E i \in StateIds : /\ t[i].stateFunc # NULL
                      /\ t[i].onEntryFunc # NULL
                      /\ t[i].onExitFunc # NULL

----------------------------------------------------------------------------
\* C1: in every reachable state currentState is a valid index into the
\* table, 0 <= currentState < FSM_MAX_NR_OF_STATES.
C1_CurrentStateValid ==
  /\ 0 <= fsmHandle.currentState
  /\ fsmHandle.currentState < FSM_MAX_NR_OF_STATES

\* The hook invocations of a transition from state A to state B, in order:
\* A's onExitFunc, then B's onEntryFunc, each if registered, each running
\* while currentState is A.
ExpectedHooks(A, B) ==
  (IF prev.table[A].onExitFunc # NULL
   THEN <<[kind |-> "onExitFunc", fn |-> prev.table[A].onExitFunc,
           slot |-> A, seen |-> A]>>
   ELSE << >>)
  \o
  (IF prev.table[B].onEntryFunc # NULL
   THEN <<[kind |-> "onEntryFunc", fn |-> prev.table[B].onEntryFunc,
           slot |-> B, seen |-> A]>>
   ELSE << >>)

\* C2: when fsmRun starts in state A and A's stateFunc returns a state
\* B # A, it invokes A's onExitFunc (if registered), then B's onEntryFunc
\* (if registered), both while currentState is still A, and only then
\* commits currentState = B.
C2_TransitionOrder ==
  (/\ Returned
   /\ prev.currentState \in StateIds
   /\ calls[1].ret \in StateIds
   /\ calls[1].ret # prev.currentState)
  => /\ calls[1].seen = prev.currentState
     /\ Tail(calls) = ExpectedHooks(prev.currentState, calls[1].ret)
     /\ fsmHandle.currentState = calls[1].ret
     /\ ~fault

\* A transition A -> B in which both hooks were invoked.
C2_Witness ==
  /\ Returned
  /\ prev.currentState \in StateIds
  /\ calls[1].ret \in StateIds
  /\ calls[1].ret # prev.currentState
  /\ Len(calls) = 3
  /\ fsmHandle.currentState = calls[1].ret

\* C3: fsmInit with initState < FSM_MAX_NR_OF_STATES returns 0, leaves every
\* slot without stateFunc, onEntryFunc and onExitFunc, and sets
\* currentState to initState, whatever the handle held before.
C3_InitInRange ==
  (IsInit /\ lastCall.args[1] < FSM_MAX_NR_OF_STATES)
  => /\ lastCall.ret = 0
     /\ \A i \in StateIds : SlotEmpty(fsmHandle.table, i)
     /\ fsmHandle.currentState = lastCall.args[1]

\* fsmInit to a state other than 0 on a handle that held registrations and
\* stood in another state.
C3_Witness ==
  /\ IsInit
  /\ lastCall.args[1] < FSM_MAX_NR_OF_STATES
  /\ lastCall.args[1] # 0
  /\ Populated(prev.table)
  /\ prev.currentState # lastCall.args[1]

\* C4: fsmInit with initState >= FSM_MAX_NR_OF_STATES returns -1, still
\* leaves every slot empty and sets currentState to 0: the handle is the one
\* a successful fsmInit(0) leaves, and no fault is pending.
C4_InitOutOfRange ==
  (IsInit /\ lastCall.args[1] >= FSM_MAX_NR_OF_STATES)
  => /\ lastCall.ret = -1
     /\ \A i \in StateIds : SlotEmpty(fsmHandle.table, i)
     /\ fsmHandle.currentState = 0
     /\ ~fault

\* A failing fsmInit on a handle that held registrations and stood in a
\* state other than 0.
C4_Witness ==
  /\ IsInit
  /\ lastCall.args[1] >= FSM_MAX_NR_OF_STATES
  /\ Populated(prev.table)
  /\ prev.currentState # 0

\* C5: fsmAdd with state < FSM_MAX_NR_OF_STATES and a stateFunc returns 0 and
\* leaves in the slot exactly the three pointers passed in, nothing of an
\* earlier registration; fsmRun never changes a registration and invokes
\* only what the table holds at that time, so the latest registration of a
\* slot decides what later steps execute.
C5_AddOverwrites ==
  /\ (IsAdd /\ lastCall.args[1] < FSM_MAX_NR_OF_STATES /\ lastCall.args[2] # NULL)
     => /\ lastCall.ret = 0
        /\ fsmHandle.table[lastCall.args[1]] =
             [stateFunc |-> lastCall.args[2],
              onEntryFunc |-> lastCall.args[3],
              onExitFunc |-> lastCall.args[4]]
  /\ IsRun
     => /\ fsmHandle.table = prev.table
        /\ \A i \in 1 .. Len(calls) :
             calls[i].slot \in StateIds
             => calls[i].fn = fsmHandle.table[calls[i].slot][calls[i].kind]

\* After stepping has begun, a slot registered with both hooks is registered
\* again with both hooks NULL.
C5_Witness ==
  /\ IsAdd
  /\ lastCall.ret = 0
  /\ sinceInit.phase = "later"
  /\ prev.table[lastCall.args[1]].onEntryFunc # NULL
  /\ prev.table[lastCall.args[1]].onExitFunc # NULL
  /\ lastCall.args[3] = NULL
  /\ lastCall.args[4] = NULL

\* C6: fsmAdd with state >= FSM_MAX_NR_OF_STATES, or with stateFunc NULL,
\* returns -1 and leaves the table and currentState as they were.
C6_AddRejected ==
  (IsAdd /\ (lastCall.args[1] >= FSM_MAX_NR_OF_STATES \/ lastCall.args[2] = NULL))
  => /\ lastCall.ret = -1
     /\ fsmHandle = prev

\* fsmAdd with stateFunc NULL and a hook, on a slot that holds a registration.
C6_Witness ==
  /\ IsAdd
  /\ lastCall.args[1] < FSM_MAX_NR_OF_STATES
  /\ lastCall.args[2] = NULL
  /\ lastCall.args[3] # NULL
  /\ prev.table[lastCall.args[1]].stateFunc # NULL
  /\ prev.table[lastCall.args[1]].onEntryFunc = NULL
  /\ lastCall.ret = -1

\* C7: when the state function returns currentState itself, fsmRun invokes
\* no hook at all and leaves currentState (and the table) unchanged.
C7_SelfLoopNoHooks ==
  (Returned /\ calls[1].ret = prev.currentState)
  => /\ HookCalls = {}
     /\ Len(calls) = 1
     /\ fsmHandle = prev
     /\ ~fault

\* The state function of a state registered with both hooks returned that
\* state.
C7_Witness ==
  /\ Returned
  /\ prev.currentState \in StateIds
  /\ calls[1].ret = prev.currentState
  /\ prev.table[prev.currentState].onEntryFunc # NULL
  /\ prev.table[prev.currentState].onExitFunc # NULL

\* C8: when the slot at currentState has no stateFunc, fsmRun invokes
\* nothing, leaves currentState and the table unchanged and does not fault.
C8_InertSlotNoOp ==
  (/\ IsRun
   /\ prev.currentState \in StateIds
   /\ prev.table[prev.currentState].stateFunc = NULL)
  => /\ calls = << >>
     /\ fsmHandle = prev
     /\ ~fault

\* fsmRun on an unregistered current slot while another slot holds a
\* registration with both hooks.
C8_Witness ==
  /\ IsRun
  /\ prev.currentState \in StateIds
  /\ prev.table[prev.currentState].stateFunc = NULL
  /\ Populated(prev.table)

\* C9: fsmInit invokes no user function.  The first fsmRun after fsmInit,
\* with the start state registered, invokes the start state's stateFunc
\* first and not the start state's onEntryFunc; an onEntryFunc is only ever
\* invoked for a slot other than the one that was current when the step
\* began, and then that slot becomes current.
C9_NoEntryForStartState ==
  /\ IsInit => calls = << >>
  /\ (/\ IsRun
      /\ sinceInit.phase = "firstRun"
      /\ prev.currentState \in StateIds
      /\ prev.table[prev.currentState].stateFunc # NULL)
     => /\ calls # << >>
        /\ calls[1].kind = "stateFunc"
        /\ calls[1].slot = prev.currentState
        /\ calls[1].fn = prev.table[prev.currentState].stateFunc
        /\ \A i \in HookCalls :
             ~(calls[i].kind = "onEntryFunc" /\ calls[i].slot = prev.currentState)
  /\ IsRun
     => \A i \in HookCalls :
          calls[i].kind = "onEntryFunc"
          => /\ calls[i].slot # prev.currentState
             /\ ~fault => fsmHandle.currentState = calls[i].slot

\* The first fsmRun after fsmInit, from a start state registered with an
\* onEntryFunc, making a transition.
C9_Witness ==
  /\ IsRun
  /\ sinceInit.phase = "firstRun"
  /\ prev.currentState \in StateIds
  /\ prev.table[prev.currentState].stateFunc # NULL
  /\ prev.table[prev.currentState].onEntryFunc # NULL
  /\ fsmHandle.currentState # prev.currentState
  /\ calls # << >>

\* C10: after fsmInit, as long as no fsmAdd has succeeded, every slot is
\* empty and every fsmRun invokes nothing and changes nothing, whatever had
\* been registered before the fsmInit.
C10_NoStaleAction ==
  (Initialised /\ ~sinceInit.adds)
  => /\ \A i \in StateIds : SlotEmpty(fsmHandle.table, i)
     /\ calls = << >>
     /\ ~fault
     /\ IsRun => fsmHandle = prev

\* fsmInit cleared a table that held registrations and fsmRun has been
\* called more than once since, with no successful fsmAdd in between.
C10_Witness ==
  /\ sinceInit.reinit
  /\ ~sinceInit.adds
  /\ IsRun
  /\ sinceInit.phase = "later"

----------------------------------------------------------------------------
\* The number of invocations of the given kind made by the most recent call.
CallsOf(kind) ==
  Cardinality({i \in 1 .. Len(calls) : calls[i].kind = kind})

\* C11: one fsmRun executes the machine once: it invokes at most three user
\* functions, namely the stateFunc of the state that was current when the
\* call began (exactly once if that state is registered, and first), at
\* most one onExitFunc and at most one onEntryFunc; currentState changes at
\* most once, to the value stateFunc returned, and the stateFunc of the
\* state just entered is not called in the same fsmRun.
C11_OneTickPerRun ==
  IsRun
  => /\ Len(calls) <= 3
     /\ CallsOf("stateFunc") <= 1
     /\ CallsOf("onExitFunc") <= 1
     /\ CallsOf("onEntryFunc") <= 1
     /\ \A i \in 1 .. Len(calls) :
          calls[i].kind = "stateFunc"
          => i = 1 /\ calls[i].slot = prev.currentState
     /\ prev.currentState \in StateIds
        => (CallsOf("stateFunc") = 1
            <=> prev.table[prev.currentState].stateFunc # NULL)
     /\ fsmHandle.currentState # prev.currentState
        => Returned /\ fsmHandle.currentState = calls[1].ret

\* An fsmRun that invoked three user functions and entered a state that is
\* itself registered.
C11_Witness ==
  /\ IsRun
  /\ Len(calls) = 3
  /\ fsmHandle.currentState # prev.currentState
  /\ fsmHandle.currentState \in StateIds
  /\ fsmHandle.table[fsmHandle.currentState].stateFunc # NULL

\* The number of invocations of the given kind, read from the given slot,
\* made by the most recent call.
CallsOfSlot(kind, slot) ==
  Cardinality({i \in 1 .. Len(calls) :
                 calls[i].kind = kind /\ calls[i].slot = slot})

\* 1 when field f of slot i of table t holds a pointer, else 0.
Registered(t, i, f) == IF t[i][f] # NULL THEN 1 ELSE 0

\* C12: hooks fire exactly once per transition: an fsmRun that changes
\* currentState from A to B invokes A's onExitFunc exactly once if it is
\* registered, B's onEntryFunc exactly once if it is registered, and no
\* other hook; an fsmRun that returns without changing currentState invokes
\* no hook.
C12_HooksOncePerTransition ==
  /\ (/\ IsRun
      /\ fsmHandle.currentState # prev.currentState
      /\ prev.currentState \in StateIds
      /\ fsmHandle.currentState \in StateIds)
     => /\ CallsOfSlot("onExitFunc", prev.currentState)
             = Registered(prev.table, prev.currentState, "onExitFunc")
        /\ CallsOfSlot("onEntryFunc", fsmHandle.currentState)
             = Registered(prev.table, fsmHandle.currentState, "onEntryFunc")
        /\ Cardinality(HookCalls)
             = Registered(prev.table, prev.currentState, "onExitFunc")
               + Registered(prev.table, fsmHandle.currentState, "onEntryFunc")
  /\ (IsRun /\ ~fault /\ fsmHandle.currentState = prev.currentState)
     => HookCalls = {}

\* A transition from a state with an onExitFunc to a state without an
\* onEntryFunc: exactly one hook is invoked.
C12_Witness ==
  /\ IsRun
  /\ fsmHandle.currentState # prev.currentState
  /\ prev.currentState \in StateIds
  /\ fsmHandle.currentState \in StateIds
  /\ prev.table[prev.currentState].onExitFunc # NULL
  /\ prev.table[prev.currentState].onEntryFunc # NULL
  /\ prev.table[fsmHandle.currentState].onEntryFunc = NULL
  /\ prev.table[fsmHandle.currentState].onExitFunc # NULL
  /\ Cardinality(HookCalls) = 1

\* C14: fsmRun does not bounds-check the value stateFunc returns.  When it
\* returns stateNext >= FSM_MAX_NR_OF_STATES, different from currentState,
\* the request is not rejected: onExitFunc of the current slot is invoked
\* as for any transition, table[stateNext].onEntryFunc is read past the
\* table (what is invoked as onEntryFunc is an indeterminate pointer from
\* slot stateNext), and currentState is committed to stateNext unless the
\* call through that pointer crashed.
C14_NoBoundsCheck ==
  (/\ Returned
   /\ prev.currentState \in StateIds
   /\ calls[1].ret >= FSM_MAX_NR_OF_STATES)
  => /\ CallsOfSlot("onExitFunc", prev.currentState)
          = Registered(prev.table, prev.currentState, "onExitFunc")
     /\ \A i \in 1 .. Len(calls) :
          calls[i].kind = "onEntryFunc"
          => calls[i].slot = calls[1].ret /\ calls[i].fn = WILD
     /\ fault => calls[Len(calls)].kind = "onEntryFunc"
     /\ ~fault => fsmHandle.currentState = calls[1].ret

\* stateFunc returned a value past the table, a pointer read from that slot
\* was called as onEntryFunc and currentState now is that value.
C14_Witness ==
  /\ Returned
  /\ prev.currentState \in StateIds
  /\ calls[1].ret >= FSM_MAX_NR_OF_STATES
  /\ calls[Len(calls)].kind = "onEntryFunc"
  /\ calls[Len(calls)].slot >= FSM_MAX_NR_OF_STATES
  /\ fsmHandle.currentState = calls[1].ret
  /\ ~fault

C17_Frame ==
  /\ IsRun => fsmHandle.table = prev.table
  /\ (IsAdd /\ lastCall.ret = 0)
     => /\ \A i \in StateIds \ {lastCall.args[1]} :
             fsmHandle.table[i] = prev.table[i]
        /\ fsmHandle.currentState = prev.currentState
  /\ (IsAdd \/ IsInit) => calls = << >> /\ ~fault

\* A successful fsmAdd for a state other than the current one, with other
\* slots registered, after stepping has begun.
C17_Witness ==
  /\ IsAdd
  /\ lastCall.ret = 0
  /\ lastCall.args[1] # prev.currentState
  /\ Populated(prev.table)
  /\ prev.table[lastCall.args[1]].stateFunc = NULL
  /\ sinceInit.phase = "later"

\* The argument tuples of fsmAdd.
AddArgs ==
  Uint8Values \X (StateFuncs \cup {NULL})
              \X (OnEntryFuncs \cup {NULL}) \X (OnExitFuncs \cup {NULL})

\* fsmAdd applied to handle h with the argument tuple a.
ApplyAdd(h, a) == fsmAdd(h, a[1], a[2], a[3], a[4])

\* C18: registration order across different states is irrelevant.  For the
\* fsmAdd just made (arguments a, from handle prev) and every fsmAdd b on
\* another state identifier, a-then-b and b-then-a end in the same handle
\* (table and currentState) and give a and b the same results.
C18_AddCommutes ==
  IsAdd
  => \A b \in AddArgs :
       b[1] # lastCall.args[1]
       => LET ab == ApplyAdd(fsmHandle, b)
              b1 == ApplyAdd(prev, b)
              ba == ApplyAdd(b1.handle, lastCall.args)
          IN /\ ab.handle = ba.handle
             /\ ab.ret = b1.ret
             /\ ba.ret = lastCall.ret

\* Two successful registrations of different states, one after the other.
C18_Witness ==
  /\ IsAdd
  /\ lastCall.ret = 0
  /\ \E i \in StateIds \ {lastCall.args[1]} : prev.table[i].stateFunc # NULL
  /\ prev.table[lastCall.args[1]].stateFunc = NULL

\* C19: the hooks of a state S are tied to the machine entering and
\* leaving S.  onExitFunc of S is invoked only by an fsmRun that began with
\* currentState = S; onEntryFunc of S only by an fsmRun that began with
\* currentState # S and ends with currentState = S; an fsmRun that leaves S
\* invokes S's onExitFunc if registered.  Hence the entries and leaves of S
\* alternate, and for the start state the first one is a leave: the first
\* fsmRun invokes no onEntryFunc of the state it starts in.
C19_HooksAlternate ==
  IsRun
  => /\ \A i \in 1 .. Len(calls) :
          /\ calls[i].kind = "onExitFunc"
             => calls[i].slot = prev.currentState
          /\ (calls[i].kind = "onEntryFunc" /\ calls[i].slot \in StateIds)
             => /\ calls[i].slot # prev.currentState
                /\ fsmHandle.currentState = calls[i].slot
     /\ (prev.currentState \in StateIds
         /\ fsmHandle.currentState # prev.currentState)
        => CallsOfSlot("onExitFunc", prev.currentState)
             = Registered(prev.table, prev.currentState, "onExitFunc")
     /\ sinceInit.phase = "firstRun"
        => CallsOfSlot("onEntryFunc", prev.currentState) = 0

\* The first fsmRun after the registrations leaves the start state, which
\* has both hooks, for a state that has both hooks: the table has not been
\* changed since stepping began.
C19_Witness ==
  /\ IsRun
  /\ sinceInit.phase = "firstRun"
  /\ Len(calls) = 3
  /\ calls[2].kind = "onExitFunc"
  /\ calls[3].kind = "onEntryFunc"
  /\ calls[3].slot \in StateIds
  /\ prev.table[prev.currentState].onEntryFunc # NULL

\* C15: when state functions return only values < FSM_MAX_NR_OF_STATES,
\* then after any sequence of fsmInit, fsmAdd and fsmRun calls with any
\* arguments currentState < FSM_MAX_NR_OF_STATES, every table access of the
\* call just made used an index < FSM_MAX_NR_OF_STATES, no indeterminate
\* pointer was called and nothing crashed.
C15_InRangeStaysInRange ==
  /\ fsmHandle.currentState \in StateIds
  /\ \A i \in Accessed : 0 <= i /\ i < FSM_MAX_NR_OF_STATES
  /\ \A i \in 1 .. Len(calls) : calls[i].fn # WILD
  /\ ~fault

\* After an fsmInit with an out-of-range initState and an fsmAdd with an
\* out-of-range state were tried, fsmRun has made a transition.
C15_Witness ==
  /\ IsRun
  /\ sinceInit.phase = "later"
  /\ fsmHandle.currentState # prev.currentState
  /\ Len(calls) = 3

\* The names of the hooks the most recent call invoked, in order.
Logged == [i \in 1 .. Len(calls) - 1 |-> calls[i + 1].fn]

\* What one step of the scenario does when it begins with the three states
\* registered: 0 -> 1 logging enter1; 1 stays while the flag is false and
\* goes to 2 logging enter2 once it is true; 2 stays; all silently but for
\* the two entries.  exit2 is never logged at all.
ScenarioSteps ==
  /\ \A i \in 1 .. Len(calls) : calls[i].fn # "exit2"
  /\ (IsRun /\ prev.table = ScenarioTable)
     => /\ calls # << >>
        /\ prev.currentState = 0
           => fsmHandle.currentState = 1 /\ Logged = <<"enter1">>
        /\ (prev.currentState = 1 /\ ~flag)
           => fsmHandle.currentState = 1 /\ Logged = << >>
        /\ (prev.currentState = 1 /\ flag)
           => fsmHandle.currentState = 2 /\ Logged = <<"enter2">>
        /\ prev.currentState = 2
           => fsmHandle.currentState = 2 /\ Logged = << >>

\* C13: the end-to-end scenario.  Every step behaves as ScenarioSteps says,
\* and if the flag eventually becomes true (steps keep occurring), the
\* machine eventually reaches state 2 and stays there for ever.
C13_Scenario ==
  /\ []ScenarioSteps
  /\ (<>flag) => <>[](fsmHandle.currentState = 2)

\* With the flag true and the three states registered, a step that began in
\* state 2 has ended in state 2.
C13_Witness ==
  /\ IsRun
  /\ flag
  /\ prev.table = ScenarioTable
  /\ prev.currentState = 2
  /\ fsmHandle.currentState = 2
  /\ Len(calls) = 1

\* The clearing loop never leaves the table: the slots cleared so far are
\* exactly 0 .. i-1, the counter never passes the capacity (so it never
\* wraps), after the loop exactly the slots 0 .. cap-1 are cleared, and every
\* identifier below the capacity passes the range test of fsmInit and
\* fsmAdd and names a cleared slot.
LoopInv ==
  /\ loop.i <= loop.cap
  /\ loop.cleared = 0 .. (loop.i - 1)
  /\ loop.pc \in {"done", "tested"} => loop.cleared = 0 .. (loop.cap - 1)
  /\ loop.pc = "tested"
     => /\ loop.accepted <=> loop.id < loop.cap
        /\ loop.id < loop.cap => loop.id \in loop.cleared

\* C20: for every capacity in 1 .. 255, with the 8-bit loop counter and 8-bit
\* state identifiers, the clearing loop of fsmInit terminates after
\* clearing exactly the slots 0 .. capacity-1 without the counter wrapping,
\* and every identifier below the capacity can be registered and can become
\* currentState.
C20_ClearLoop ==
  /\ []LoopInv
  /\ <>(loop.pc # "loop")

\* With the largest capacity the loop has ended and the last identifier of
\* the table passed the range test.
C20_Witness ==
  /\ loop.pc = "tested"
  /\ loop.cap = MAX_CAPACITY
  /\ loop.id = MAX_CAPACITY - 1
  /\ loop.accepted
  /\ Cardinality(loop.cleared) = MAX_CAPACITY

====
